---- MODULE Spec2Model ----
(***************************************************************************)
(* ImpDAR loaders: the gecko framed trace decoder (lib/load_gecko.py), the *)
(* record model and its check_attrs (lib/ApresData/__init__.py), the       *)
(* container loaders (lib/load/load_mcords.py, lib/load/load_UoA_mat.py)   *)
(* and the ApRES header decoder (lib/ApresData/ApresHeader.py).            *)
(***************************************************************************)
EXTENDS Integers, Sequences, FiniteSets, TLC

(***************************************************************************)
(* Bounds of the model.                                                    *)
(***************************************************************************)
\* longest sequence of trace records written to a .gtd file
MaxRecs == 2
\* largest channel count / output channel
MaxChan == 2
\* most bytes cut off the end of a .gtd file
MaxCut == 4

\* Version tags (hundredths) written to the file header: one on each side of
\* the thresholds 3.2 / 3.21 / 3.6 / 3.8 the decoder tests.
Versions == {310, 350, 380}

\* date(1970,1,1).toordinal()
EpochOrdinal == 719163

VARIABLES
    \* ---- gecko(fn, channel) ----
    written,    \* what the instrument wrote: version, channel headers, records
    file,       \* the bytes of fn
    pc,         \* position of the decoder
    pos,        \* fid.tell()
    nn,         \* index of the channel loops
    nTrc,       \* trace counter
    self,       \* the attributes of the object under construction
    newdata,    \* the local newdata: <<>> while unbound, else <<samples>>
    exc,        \* the exception that left the call, "" if none
    checkCalls, \* calls of check_attrs on the object of the running loader
    \* ---- the record model and the container loaders ----
    loader,     \* the loader that runs: "gecko", "ApresData", "load_mcords_nc",
                \* "load_mcords_mat", "load_UoA_mat", or "check_attrs" when
                \* check_attrs is called on an object built elsewhere
    lpc,        \* its position: start, populated, checked, returned, raised
    input,      \* the container file it is given
    model,      \* the record model it builds
    \* ---- ApresHeader ----
    hfile,      \* the header text of the file read last
    hobj,       \* the attributes of the ApresHeader object
    hcall,      \* the last call on it: the method, how it ended, what it set
    reads       \* calls of read_header so far

gvars == <<written, file, pc, pos, nn, nTrc, self, newdata>>
lvars == <<loader, lpc, input, model>>
hvars == <<hfile, hobj, hcall, reads>>

(***************************************************************************)
(* Python objects: an object is the function from the names of the         *)
(* attributes it has to their values.                                      *)
(***************************************************************************)
EmptyObj == [x \in {} |-> 0]
Has(o, a) == a \in DOMAIN o
SetAttr(o, a, v) == (a :> v) @@ o
Append1(o, a, v) == SetAttr(o, a, Append(o[a], v))
Zeros(n) == [i \in 1..n |-> 0]

(***************************************************************************)
(* Binary layout.  A field is a name, an item size in bytes, an item count *)
(* and the way the code reads it: "s" for np.fromfile(fid, T, 1)[0], which *)
(* raises IndexError when no whole item is left, "a" for a read whose      *)
(* result is not indexed (np.fromfile(fid, T, n), fid.read(n)), which      *)
(* returns the whole items that are left.  A value occupies the first byte *)
(* of its item.                                                            *)
(***************************************************************************)
Fld(n, w, c, k) == [n |-> n, w |-> w, c |-> c, k |-> k]

HeaderHead == << Fld("Version", 2, 1, "s") >>

HeaderRest(ver) ==
    << Fld("Filename", 1, 64, "a"),
       Fld("Serialtime", 8, 1, "s"),
       Fld("Timezone", 2, 1, "s"),
       Fld("nChannels", 1, 1, "s"),
       Fld("RecordMode", 1, 1, "s"),
       Fld("RecordInterval", 2, 1, "s"),
       Fld("NumberOfStacks", 2, 1, "s"),
       Fld("SampFreq", 2, 1, "s"),
       Fld("PreTriggerDepth", 2, 1, "s"),
       Fld("PostTriggerDepth", 2, 1, "s"),
       Fld("TriggerSource", 1, 1, "s"),
       Fld("TriggerSlope", 1, 1, "s"),
       Fld("ExtTriggerRange", 2, 1, "s"),
       Fld("ExtTriggerCoupling", 1, 1, "s") >>
    \o (IF ver < 321 THEN << Fld("OdometerCalibration", 2, 1, "s") >> ELSE << >>)
    \o << Fld("NominalFrequency", IF ver < 380 THEN 2 ELSE 4, 1, "s"),
          Fld("AntennaSeparation", 4, 1, "s") >>
    \o (IF ver < 360 THEN << Fld("buffer", 1, 27, "a") >> ELSE << >>)

ChanHead == << Fld("nChan", 1, 1, "s") >>

ChanRest(ver) ==
    << Fld("VoltRange", 2, 1, "s"),
       Fld("Impedance", 1, 1, "s"),
       Fld("Coupling", 1, 1, "s") >>
    \o (IF ver < 360 THEN << Fld("buffer", 1, 27, "a") >> ELSE << >>)

TraceHead == << Fld("nHeaderType", 1, 1, "a"), Fld("nChan", 1, 1, "s") >>

TraceRest(ver) ==
    << Fld("trace_num", 4, 1, "s"),
       Fld("decday", 8, 1, "s"),
       Fld("trace_int", 4, 1, "s"),
       Fld("trig_level", 2, 1, "s") >>
    \o (IF ver < 321
        THEN << Fld("Odometer", 4, 1, "s"), Fld("pressure", 4, 1, "s") >>
        ELSE << >>)
    \o << Fld("lat", 8, 1, "s"),
          Fld("long", 8, 1, "s"),
          Fld("elev", 4, 1, "s"),
          Fld("GPSResolution", 4, 1, "s") >>
    \o (IF ver < 360
        THEN << Fld("buffer", 1, IF ver < 320 THEN 12 ELSE 14, "a") >>
        ELSE << >>)

DataPayload(snum) == << Fld("newdata", 2, snum, "a") >>

MarkerHead ==
    << Fld("nNumber", 2, 1, "a"), Fld("mTrace", 4, 1, "a"), Fld("mTime", 8, 1, "a") >>

MarkerTail ==
    << Fld("mLat", 8, 1, "a"), Fld("mLong", 8, 1, "a"),
       Fld("mAlt", 4, 1, "a"), Fld("mAcc", 4, 1, "a") >>

\* np.fromfile(fid, T, c) at offset p: the whole items left, at most c; the
\* cursor moves past them, to the end of the file when items are missing.
FromFile(bytes, p, w, c) ==
    LET avail == IF p < Len(bytes) THEN Len(bytes) - p ELSE 0
        got   == IF c * w <= avail THEN c ELSE avail \div w
    IN  [arr |-> [i \in 1..got |-> bytes[p + (i - 1) * w + 1]],
         pos |-> IF got = c THEN p + c * w ELSE Len(bytes)]

\* Reads the fields of a layout in order.  st = [pos, ok, vals]; ok turns
\* FALSE at the first "s" field that is not there (IndexError) and the
\* fields after it are not read.
RECURSIVE ReadFields(_, _, _)
ReadFields(bytes, layout, st) ==
    IF layout = << >> \/ ~st.ok THEN st
    ELSE LET f == Head(layout)
             r == FromFile(bytes, st.pos, f.w, f.c)
         IN  ReadFields(bytes, Tail(layout),
                 [pos  |-> r.pos,
                  ok   |-> (f.k = "s") => (Len(r.arr) = 1),
                  vals |-> (f.n :> r.arr) @@ st.vals])

StartRead(p) == [pos |-> p, ok |-> TRUE, vals |-> EmptyObj]

\* The bytes of the fields of a layout; vals gives the items of the named
\* fields, every other item is 0.
ItemOf(vals, n, i) ==
    IF n \in DOMAIN vals /\ i \in DOMAIN vals[n] THEN vals[n][i] ELSE 0

RECURSIVE EncodeFields(_, _)
EncodeFields(layout, vals) ==
    IF layout = << >> THEN << >>
    ELSE LET f == Head(layout)
         IN  [j \in 1..(f.w * f.c) |->
                 IF (j - 1) % f.w = 0
                 THEN ItemOf(vals, f.n, ((j - 1) \div f.w) + 1)
                 ELSE 0]
             \o EncodeFields(Tail(layout), vals)

(***************************************************************************)
(* The files the decoder is given.  A record of the stream is a type byte  *)
(* (0 data, 1 marker, 2 comment) and a channel index; record k carries the *)
(* values Inj(field, k) in its scalar fields and Smp(k, i) as its i-th     *)
(* sample, all different from 0 and from each other.                       *)
(***************************************************************************)
FieldNo(n) ==
    CASE n = "trace_num" -> 1 [] n = "decday" -> 2 [] n = "trace_int" -> 3
      [] n = "trig_level" -> 4 [] n = "Odometer" -> 5 [] n = "pressure" -> 6
      [] n = "lat" -> 7 [] n = "long" -> 8 [] n = "elev" -> 9
      [] n = "GPSResolution" -> 0

Inj(n, k) == 10 * k + FieldNo(n)
Smp(k, i) == 100 * k + i

ScalarNames ==
    {"trace_num", "decday", "trace_int", "trig_level", "Odometer", "pressure",
     "lat", "long", "elev", "GPSResolution"}

\* <<PreTriggerDepth, PostTriggerDepth>> written to the file header
Depths == { <<1, 1>> }

RecTypes == {0, 1, 2}

RECURSIVE SeqsUpTo(_, _)
SeqsUpTo(S, n) ==
    IF n = 0 THEN { << >> }
    ELSE LET shorter == SeqsUpTo(S, n - 1)
         IN  shorter \cup { Append(q, x) : q \in shorter, x \in S }

\* The channel slot the decoder is at when it reads each record of a stream
\* of the given types: slot 1 follows a marker and the last channel.
RECURSIVE Slots(_, _, _)
Slots(types, n, s) ==
    IF types = << >> THEN << >>
    ELSE << s >> \o Slots(Tail(types), n,
                          IF Head(types) = 1 \/ s >= n THEN 1 ELSE s + 1)

PayloadOf(t, snum) ==
    CASE t = 0 -> DataPayload(snum)
      [] t = 1 -> MarkerHead \o MarkerTail
      [] OTHER -> << >>

RecordVals(k, t, c, snum) ==
    [n \in ScalarNames |-> << Inj(n, k) >>]
    @@ ("nHeaderType" :> << t >>) @@ ("nChan" :> << c >>)
    @@ ("newdata" :> [i \in 1..snum |-> Smp(k, i)])

RECURSIVE EncodeChannels(_, _, _)
EncodeChannels(ver, idx, k) ==
    IF k > Len(idx) THEN << >>
    ELSE EncodeFields(ChanHead \o ChanRest(ver), ("nChan" :> << idx[k] >>))
         \o EncodeChannels(ver, idx, k + 1)

RECURSIVE EncodeRecords(_, _, _, _)
EncodeRecords(ver, recs, snum, k) ==
    IF k > Len(recs) THEN << >>
    ELSE EncodeFields(TraceHead \o TraceRest(ver) \o PayloadOf(recs[k].type, snum),
                      RecordVals(k, recs[k].type, recs[k].chan, snum))
         \o EncodeRecords(ver, recs, snum, k + 1)

Encode(w) ==
    EncodeFields(HeaderHead \o HeaderRest(w.version),
                 ("Version" :> << w.version >>)
                 @@ ("nChannels" :> << Len(w.chans) >>)
                 @@ ("SampFreq" :> << 1 >>)
                 @@ ("PreTriggerDepth" :> << w.depth[1] >>)
                 @@ ("PostTriggerDepth" :> << w.depth[2] >>))
    \o EncodeChannels(w.version, w.chans, 1)
    \o EncodeRecords(w.version, w.recs, w.depth[1] + w.depth[2], 1)

Truncate(bytes, cut) ==
    SubSeq(bytes, 1, IF cut < Len(bytes) THEN Len(bytes) - cut ELSE 0)

\* One channel index of the stream (a channel header, then a record) is
\* wrong when bad > 0: the decoder stops at the first wrong index, so the
\* indexes after it do not matter.
WrittenFiles ==
    { [version |-> ver, depth |-> d, cut |-> m[1], bad |-> m[2],
       chans |-> [i \in 1..n |-> IF m[2] = i THEN i + 1 ELSE i],
       recs  |-> [k \in 1..Len(types) |->
                     [type |-> types[k],
                      chan |-> IF m[2] = n + k
                               THEN Slots(types, n, 1)[k] + 1
                               ELSE Slots(types, n, 1)[k]]]] :
      ver \in Versions, d \in Depths, n \in 0..MaxChan,
      types \in SeqsUpTo(RecTypes, MaxRecs),
      m \in ({ <<c, 0>> : c \in 0..MaxCut }
             \cup { <<0, b>> : b \in 1..(MaxChan + MaxRecs) }) }

\* the ApresHeader variables while a loader runs
NoHeader == [kws |-> {}, toks |-> << >>, mode |-> << >>, nadc |-> << >>]
NoCall == [op |-> "", res |-> "", tag |-> 0]

InitGecko ==
    /\ written \in { w \in WrittenFiles : w.bad <= Len(w.chans) + Len(w.recs) }
    /\ file = Truncate(Encode(written), written.cut)
    /\ pc = "FileHeader"
    /\ pos = 0
    /\ nn = 0
    /\ nTrc = 0
    /\ self \in { SetAttr(EmptyObj, "chan", c) : c \in 1..MaxChan }
    /\ newdata = << >>
    /\ exc = ""
    /\ checkCalls = 0
    /\ loader = "gecko"
    /\ lpc = "idle"
    /\ input = << >>
    /\ model = EmptyObj
    /\ hfile = NoHeader
    /\ hobj = EmptyObj
    /\ hcall = NoCall
    /\ reads = 0

(***************************************************************************)
(* gecko.__init__                                                          *)
(***************************************************************************)
\* counts above it are not told apart: nTrc is only tested for 1 and % 100
TrcCap == MaxRecs + 1

Raise(e, p) ==
    /\ pc' = "Raised"
    /\ exc' = e
    /\ pos' = p
    /\ UNCHANGED <<nn, nTrc, self, newdata>>

\* a 2-D array: its shape and its rows
Array2(r, c, rows) == [shape |-> <<r, c>>, v |-> rows]
\* np.append(a, [row], axis=0)
AppendRow(a, row) == Array2(a.shape[1] + 1, a.shape[2], Append(a.v, row))
\* np.transpose(a)
Transpose(a) ==
    Array2(a.shape[2], a.shape[1],
           [i \in 1..a.shape[2] |-> [j \in 1..a.shape[1] |-> a.v[j][i]]])

\* lines 183-184: the travel time of sample i in units of 1/SampFreq
TravelTime(pre, post) == [i \in 1..(pre + post) |-> i - 1 - pre]

\* a channel-index mutation: the comparison only catches a low index
ChanMismatchBelow(nChan, k) == nChan < k + 1

\* lines 145 and 211: the channel index read in pass k is not k + 1
ChanMismatch(nChan, k) == nChan # k + 1

\* lines 67-137
ReadFileHeader ==
    /\ pc = "FileHeader"
    /\ LET h1 == ReadFields(file, HeaderHead, StartRead(pos))
           h2 == IF h1.ok
                 THEN ReadFields(file, HeaderRest(h1.vals["Version"][1]), h1)
                 ELSE h1
       IN  IF ~h2.ok THEN Raise("IndexError", h2.pos)
           ELSE LET pre  == h2.vals["PreTriggerDepth"][1]
                    post == h2.vals["PostTriggerDepth"][1]
                    nch  == h2.vals["nChannels"][1]
                    o1   == ("Version" :> h2.vals["Version"][1])
                            @@ ("nChannels" :> nch)
                            @@ ("SampFreq" :> h2.vals["SampFreq"][1])
                            @@ ("PreTriggerDepth" :> pre)
                            @@ ("PostTriggerDepth" :> post)
                            @@ ("snum" :> pre + post)
                            @@ self
                IN  /\ self' = IF nch = 0
                               THEN SetAttr(o1, "travel_time", TravelTime(pre, post))
                               ELSE o1
                    /\ pc' = IF nch = 0 THEN "TraceLoop" ELSE "ChannelHeader"
                    /\ pos' = h2.pos
                    /\ nn' = 0
                    /\ UNCHANGED <<nTrc, newdata, exc>>
    /\ UNCHANGED <<written, file, checkCalls, lvars, hvars>>

\* lines 142-177, one pass of the loop; lines 183-186 after the last pass
ReadChannelHeader ==
    /\ pc = "ChannelHeader"
    /\ LET c1 == ReadFields(file, ChanHead, StartRead(pos))
       IN  IF ~c1.ok THEN Raise("IndexError", c1.pos)
           ELSE IF ChanMismatch(c1.vals["nChan"][1], nn) THEN Raise("TypeError", c1.pos)
           ELSE LET c2 == ReadFields(file, ChanRest(self["Version"]), c1)
                IN  IF ~c2.ok THEN Raise("IndexError", c2.pos)
                    ELSE LET o0 == IF nn = 0
                                   THEN ("VoltRange" :> << >>) @@ ("Impedance" :> << >>)
                                        @@ ("Coupling" :> << >>) @@ self
                                   ELSE self
                             o1 == Append1(Append1(Append1(o0,
                                       "VoltRange", c2.vals["VoltRange"][1]),
                                       "Impedance", c2.vals["Impedance"][1]),
                                       "Coupling", c2.vals["Coupling"][1])
                             last == nn + 1 = self["nChannels"]
                         IN  /\ self' = IF last
                                        THEN SetAttr(o1, "travel_time",
                                                 TravelTime(self["PreTriggerDepth"],
                                                            self["PostTriggerDepth"]))
                                        ELSE o1
                             /\ pc' = IF last THEN "TraceLoop" ELSE "ChannelHeader"
                             /\ pos' = c2.pos
                             /\ nn' = nn + 1
                             /\ UNCHANGED <<nTrc, newdata, exc>>
    /\ UNCHANGED <<written, file, checkCalls, lvars, hvars>>

PerTraceNames(ver) ==
    << "trace_num", "decday", "trace_int", "trig_level" >>
    \o (IF ver < 321 THEN << "Odometer", "pressure" >> ELSE << >>)
    \o << "lat", "long", "elev", "GPSResolution" >>

\* lines 195-205
Preallocate(o) ==
    [n \in {"trace_num", "decday", "trace_int", "trig_level", "Odometer",
            "pressure", "lat", "long", "elev", "GPSResolution"} |-> << >>]
    @@ ("data" :> Array2(0, o["snum"], << >>))
    @@ o

\* lines 187-206: the loop test holds and a trace iteration starts
BeginTrace ==
    /\ pc = "TraceLoop"
    /\ pos < Len(file)
    /\ nTrc' = IF nTrc < TrcCap THEN nTrc + 1 ELSE nTrc
    /\ self' = IF nTrc = 0 THEN Preallocate(self) ELSE self
    /\ nn' = 0
    /\ pc' = IF self["nChannels"] = 0 THEN "TraceLoop" ELSE "Channel"
    /\ UNCHANGED <<written, file, pos, newdata, exc, checkCalls, lvars, hvars>>

\* the value a record field decodes to (line 216 shifts the time)
Decoded(n, vals) ==
    IF n = "decday" THEN vals[n][1] + EpochOrdinal ELSE vals[n][1]

RECURSIVE AppendScalars(_, _, _)
AppendScalars(o, names, vals) ==
    IF names = << >> THEN o
    ELSE AppendScalars(Append1(o, Head(names), Decoded(Head(names), vals)),
                       Tail(names), vals)

\* lines 264-280 for a record that did not break the loop; r is the state
\* of the reads, nd the local newdata after the record
StoreRecord(r, nd) ==
    LET o1 == IF nn + 1 = 1
              THEN AppendScalars(self, PerTraceNames(self["Version"]), r.vals)
              ELSE self
        last == nn + 1 = self["nChannels"]
    IN  IF nn + 1 = self["chan"] /\ nd = << >>
        THEN Raise("UnboundLocalError", r.pos)
        ELSE IF nn + 1 = self["chan"] /\ Len(nd[1]) # self["snum"]
        THEN Raise("ValueError", r.pos)
        ELSE /\ self' = IF nn + 1 = self["chan"]
                        THEN SetAttr(o1, "data", AppendRow(o1["data"], nd[1]))
                        ELSE o1
             /\ newdata' = nd
             /\ pos' = r.pos
             /\ nn' = nn + 1
             /\ pc' = IF last THEN "TraceLoop" ELSE "Channel"
             /\ UNCHANGED <<nTrc, exc>>

\* lines 206-280, one pass of the channel loop
ReadRecord ==
    /\ pc = "Channel"
    /\ LET r1 == ReadFields(file, TraceHead, StartRead(pos))
       IN  IF ~r1.ok THEN Raise("IndexError", r1.pos)
           ELSE IF ChanMismatch(r1.vals["nChan"][1], nn) THEN Raise("TypeError", r1.pos)
           ELSE LET r2 == ReadFields(file, TraceRest(self["Version"]), r1)
                    t  == r2.vals["nHeaderType"][1]
                IN  IF ~r2.ok THEN Raise("IndexError", r2.pos)
                    ELSE IF t = 0
                    THEN LET r3 == ReadFields(file, DataPayload(self["snum"]), r2)
                         IN  StoreRecord(r3, << r3.vals["newdata"] >>)
                    ELSE IF t = 1
                    THEN LET m1 == ReadFields(file, MarkerHead, r2)
                             m2 == ReadFields(file, MarkerTail, m1)
                         IN  \* line 253 adds a datetime.date to the array read
                             IF Len(m1.vals["mTime"]) > 0
                             THEN Raise("TypeError", m1.pos)
                             ELSE /\ pc' = "TraceLoop"
                                  /\ pos' = m2.pos
                                  /\ UNCHANGED <<nn, nTrc, self, newdata, exc>>
                    ELSE StoreRecord(r2, newdata)
    /\ UNCHANGED <<written, file, checkCalls, lvars, hvars>>

\* lines 286-304: the loop test fails
Finalize ==
    /\ pc = "TraceLoop"
    /\ pos >= Len(file)
    /\ IF ~Has(self, "data") THEN Raise("AttributeError", pos)
       ELSE LET d    == Transpose(self["data"])
                tnum == d.shape[2]
                o1   == ("data" :> d) @@ ("tnum" :> tnum)
                        @@ ("trig_level" :> Zeros(tnum))
                        @@ ("flags" :> << >>)
                        @@ ("x_coord" :> Zeros(tnum))
                        @@ ("y_coord" :> Zeros(tnum))
                        @@ ("dist" :> [i \in 1..tnum |-> i - 1])
                        @@ ("trig" :> Zeros(tnum))
                        @@ self
            IN  /\ self' = IF self["Version"] >= 360
                           THEN SetAttr(o1, "pressure", Zeros(tnum))
                           ELSE o1
                /\ pc' = "Constructed"
                /\ UNCHANGED <<pos, nn, nTrc, newdata, exc>>
    /\ UNCHANGED <<written, file, checkCalls, lvars, hvars>>

\* gecko(fn, channel) returns the object to its caller; load_gecko(fn) (line
\* 309) is gecko(fn) with channel = 1 and returns the object as it is
ReturnGecko ==
    /\ pc = "Constructed"
    /\ pc' = "Returned"
    /\ UNCHANGED <<written, file, pos, nn, nTrc, self, newdata, exc, checkCalls, lvars, hvars>>

NextGecko ==
    \/ ReadFileHeader
    \/ ReadChannelHeader
    \/ BeginTrace
    \/ ReadRecord
    \/ Finalize
    \/ ReturnGecko

(***************************************************************************)
(* The record model (ApresData) and check_attrs.  An attribute value is    *)
(* None, a scalar or an array with a shape.                                *)
(***************************************************************************)
\* largest snum / tnum of a container file
MaxDim == 2
\* most attributes of a record model left undeclared or None
MaxDev == 2

NoneV == [k |-> "None"]
Scalar(v) == [k |-> "scalar", v |-> v]
Arr(shape) == [k |-> "array", shape |-> shape]

attrs_guaranteed ==
    << "data", "decday", "dt", "lat", "long", "snum", "tnum", "trace_num",
       "travel_time" >>

attrs_optional == << "x_coord", "y_coord", "elev", "fn", "file_read_code" >>

Range(q) == { q[i] : i \in DOMAIN q }
ModelAttrs == Range(attrs_guaranteed) \cup Range(attrs_optional) \cup {"data_dtype"}

\* ApresData(None), lines 64-104
ApresDataNone == [a \in ModelAttrs \cup {"flags"} |->
                     IF a = "flags" THEN Scalar(0) ELSE NoneV]

\* RadarData(None), which the container loaders start from
RadarDataNone == [a \in ModelAttrs \cup {"flags"} |->
                     IF a = "flags" THEN Scalar(0) ELSE NoneV]

\* a check_attrs mutation: the optional attributes are not looked at
CheckRaisesRequiredOnly(o) ==
    \E i \in DOMAIN attrs_guaranteed :
        \/ ~Has(o, attrs_guaranteed[i])
        \/ o[attrs_guaranteed[i]] = NoneV

\* lines 144-155: TRUE when check_attrs raises ImpdarError
CheckRaises(o) ==
    \/ \E i \in DOMAIN attrs_guaranteed :
           \/ ~Has(o, attrs_guaranteed[i])
           \/ o[attrs_guaranteed[i]] = NoneV
    \/ \E i \in DOMAIN attrs_optional : ~Has(o, attrs_optional[i])

\* lines 157-158
SetDtype(o) ==
    IF ~Has(o, "data_dtype") \/ o["data_dtype"] = NoneV
    THEN SetAttr(o, "data_dtype", Scalar(0))
    ELSE o

\* a record model with every attribute set for snum = s, tnum = t
FullModel(s, t) ==
    [a \in ModelAttrs |->
        CASE a = "data" -> Arr(<<s, t>>)
          [] a \in {"decday", "lat", "long", "trace_num", "x_coord", "y_coord", "elev"}
               -> Arr(<<t>>)
          [] a = "travel_time" -> Arr(<<s>>)
          [] a = "snum" -> Scalar(s)
          [] a = "tnum" -> Scalar(t)
          [] OTHER -> Scalar(0)]

\* the model with the attributes of D undeclared or None as dev says
Deviate(o, dev) ==
    [a \in { x \in DOMAIN o : ~(x \in DOMAIN dev /\ dev[x] = "absent") } |->
        IF a \in DOMAIN dev THEN NoneV ELSE o[a]]

\* the objects check_attrs is called on during development
DevModels ==
    { ApresDataNone }
    \cup { Deviate(FullModel(MaxDim, MaxDim), dev) :
             dev \in UNION { [D -> {"absent", "None"}] :
                               D \in { X \in SUBSET ModelAttrs :
                                         Cardinality(X) <= MaxDev } } }

(***************************************************************************)
(* Container files: a file written for snum = s and tnum = t holds the     *)
(* arrays of that acquisition under the names of its format.               *)
(***************************************************************************)
Dims == { <<s, t>> : s \in 1..MaxDim, t \in 1..MaxDim }

\* lines 109-114 and 118-123: a .mat variable of shape sh2 as an attribute
FromMat(sh2, v) ==
    IF sh2 = <<1, 1>> THEN Scalar(v)
    ELSE IF sh2[1] = 1 \/ sh2[2] = 1 THEN Arr(<< sh2[1] * sh2[2] >>)
    ELSE Arr(sh2)

\* np.squeeze of a 2-D variable
Squeeze(sh2) == SelectSeq(sh2, LAMBDA d : d # 1)

\* the shape scipy.io.loadmat gives the variable a of an ImpDAR .mat file
MatShape(a, d) ==
    CASE a = "data" -> << d[1], d[2] >>
      [] a \in {"decday", "lat", "long", "trace_num", "x_coord", "y_coord", "elev"}
           -> << 1, d[2] >>
      [] a = "travel_time" -> << d[1], 1 >>
      [] OTHER -> << 1, 1 >>

MatValue(a, d) == IF a = "snum" THEN d[1] ELSE IF a = "tnum" THEN d[2] ELSE 0

\* .mat files: the variables they hold (flags is always there)
MatFiles ==
    { [dims |-> d, keys |-> (Range(attrs_guaranteed) \ miss) \cup opt] :
        d \in Dims,
        miss \in { {} } \cup { {a} : a \in Range(attrs_guaranteed) },
        opt \in SUBSET Range(attrs_optional) }

\* the other containers: their dimensions and whether they can be read as
\* the format (netCDF4 importable, the MCoRDS keys present)
OtherFiles == { [dims |-> d, readable |-> r] : d \in Dims, r \in BOOLEAN }

InitLoaders ==
    /\ loader \in {"ApresData", "load_mcords_nc", "load_mcords_mat",
                   "load_UoA_mat", "check_attrs"}
    /\ input \in IF loader = "ApresData" THEN MatFiles
                 ELSE IF loader = "check_attrs" THEN { << >> }
                 ELSE OtherFiles
    /\ IF loader = "check_attrs"
       THEN lpc = "populated" /\ model \in DevModels
       ELSE lpc = "start" /\ model = EmptyObj
    /\ checkCalls = 0
    /\ exc = ""
    /\ written = [version |-> 380, depth |-> <<1, 1>>, cut |-> 0, bad |-> 0,
                  chans |-> << >>, recs |-> << >>]
    /\ file = << >>
    /\ pc = "Idle"
    /\ pos = 0
    /\ nn = 0
    /\ nTrc = 0
    /\ self = EmptyObj
    /\ newdata = << >>
    /\ hfile = NoHeader
    /\ hobj = EmptyObj
    /\ hcall = NoCall
    /\ reads = 0

LRaise(e) ==
    /\ lpc' = "raised"
    /\ exc' = e
    /\ UNCHANGED model

\* ApresData.__init__(fn_mat), lines 107-131
ApresDataLoad ==
    /\ loader = "ApresData"
    /\ lpc = "start"
    /\ IF ~(Range(attrs_guaranteed) \subseteq input.keys)
       THEN LRaise("KeyError")
       ELSE /\ model' = [a \in ModelAttrs \cup {"flags"} |->
                        IF a \in {"fn", "flags", "data_dtype"} THEN Scalar(0)
                        ELSE IF a \in input.keys
                        THEN FromMat(MatShape(a, input.dims), MatValue(a, input.dims))
                        ELSE NoneV]
            /\ lpc' = "populated"
            /\ UNCHANGED exc
    /\ UNCHANGED <<loader, input, checkCalls, gvars, hvars>>

\* a[1] - a[0] on the per-trace array a
SecondMinusFirstFails(sh) == sh = << >> \/ sh[1] < 2

\* load_mcords_nc, lines 34-60
McordsNcLoad ==
    /\ loader = "load_mcords_nc"
    /\ lpc = "start"
    /\ LET s == input.dims[1]
           t == input.dims[2]
       IN  IF ~input.readable THEN LRaise("ImportError")
           ELSE IF SecondMinusFirstFails(<< t >>) THEN LRaise("IndexError")
           ELSE /\ model' = ("fn" :> Scalar(0)) @@ ("data" :> Arr(<<s, t>>))
                        @@ ("long" :> Arr(<<t>>)) @@ ("lat" :> Arr(<<t>>))
                        @@ ("decday" :> Arr(<<t>>)) @@ ("trace_int" :> Scalar(0))
                        @@ ("travel_time" :> Arr(<<s>>)) @@ ("dt" :> Scalar(0))
                        @@ ("tnum" :> Scalar(t)) @@ ("snum" :> Scalar(s))
                        @@ ("trace_num" :> Arr(<<t>>)) @@ ("chan" :> Scalar(0))
                        @@ ("pressure" :> Arr(<<t>>)) @@ ("trig" :> Arr(<<t>>))
                        @@ ("trig_level" :> Scalar(0))
                        @@ RadarDataNone
                /\ lpc' = "populated"
                /\ UNCHANGED exc
    /\ UNCHANGED <<loader, input, checkCalls, gvars, hvars>>

\* load_mcords_mat, lines 76-103
McordsMatLoad ==
    /\ loader = "load_mcords_mat"
    /\ lpc = "start"
    /\ LET s == input.dims[1]
           t == input.dims[2]
           data == Squeeze(<<s, t>>)
           row  == Squeeze(<<1, t>>)
       IN  IF ~input.readable THEN LRaise("KeyError")
           ELSE IF SecondMinusFirstFails(row) THEN LRaise("IndexError")
           ELSE IF Len(data) < 2 THEN LRaise("IndexError")
           ELSE /\ model' = ("fn" :> Scalar(0)) @@ ("data" :> Arr(data))
                        @@ ("long" :> Arr(row)) @@ ("lat" :> Arr(row))
                        @@ ("decday" :> Arr(row)) @@ ("trace_int" :> Scalar(0))
                        @@ ("travel_time" :> Arr(Squeeze(<<s, 1>>)))
                        @@ ("dt" :> Scalar(0))
                        @@ ("snum" :> Scalar(data[1])) @@ ("tnum" :> Scalar(data[2]))
                        @@ ("trace_num" :> Arr(<< data[2] >>)) @@ ("chan" :> Scalar(0))
                        @@ ("pressure" :> Arr(row)) @@ ("trig" :> Arr(row))
                        @@ ("trig_level" :> Scalar(0))
                        @@ RadarDataNone
                /\ lpc' = "populated"
                /\ UNCHANGED exc
    /\ UNCHANGED <<loader, input, checkCalls, gvars, hvars>>

\* load_UoA_mat, lines 26-69
UoAMatLoad ==
    /\ loader = "load_UoA_mat"
    /\ lpc = "start"
    /\ LET s == input.dims[1]
           t == input.dims[2]
       IN  IF ~input.readable THEN LRaise("OSError")
           ELSE IF SecondMinusFirstFails(<< t >>) THEN LRaise("IndexError")
           ELSE /\ model' = ("fn" :> Scalar(0)) @@ ("data" :> Arr(<<s, t>>))
                        @@ ("snum" :> Scalar(s)) @@ ("tnum" :> Scalar(t))
                        @@ ("trace_num" :> Arr(<<t>>))
                        @@ ("travel_time" :> Arr(<<s>>)) @@ ("dt" :> Scalar(0))
                        @@ ("lat" :> Arr(<<t>>)) @@ ("long" :> Arr(<<t>>))
                        @@ ("x_coord" :> Arr(<<t>>)) @@ ("y_coord" :> Arr(<<t>>))
                        @@ ("dist" :> Arr(<<t>>)) @@ ("elev" :> Arr(<<t>>))
                        @@ ("decday" :> Arr(<<t>>)) @@ ("trace_int" :> Scalar(0))
                        @@ ("pressure" :> Arr(<<t>>)) @@ ("trig" :> Arr(<<t>>))
                        @@ ("trig_level" :> Scalar(0)) @@ ("chan" :> Scalar(0))
                        @@ RadarDataNone
                /\ lpc' = "populated"
                /\ UNCHANGED exc
    /\ UNCHANGED <<loader, input, checkCalls, gvars, hvars>>

\* check_attrs(), lines 144-159, as the loaders call it last
CheckAttrsCall ==
    /\ lpc = "populated"
    /\ checkCalls' = checkCalls + 1
    /\ IF CheckRaises(model) THEN LRaise("ImpdarError")
       ELSE /\ model' = SetDtype(model)
            /\ lpc' = "checked"
            /\ UNCHANGED exc
    /\ UNCHANGED <<loader, input, gvars, hvars>>

\* the loader hands the model to its caller
ReturnModel ==
    /\ lpc = "checked"
    /\ loader # "check_attrs"
    /\ lpc' = "returned"
    /\ UNCHANGED <<loader, input, model, exc, checkCalls, gvars, hvars>>

NextLoaders ==
    \/ ApresDataLoad
    \/ McordsNcLoad
    \/ McordsMatLoad
    \/ UoAMatLoad
    \/ CheckAttrsCall
    \/ ReturnModel

(***************************************************************************)
(* ApresHeader.  A header text is the format keywords it contains, its     *)
(* tokens with a quoted value in the order of the text (the Reg0 registers *)
(* and any other token of the shape name="value"), and the two scalar      *)
(* tokens SamplingFreqMode= and N_ADC_SAMPLES= (<<>> when absent, else the *)
(* text up to the next backslash).  Frequencies are kept in DDS tuning     *)
(* words (fsysclk / 2^32 Hz) and time steps in ticks (4 / fsysclk s).      *)
(***************************************************************************)
\* most calls of read_header on one object
MaxReads == 2

Keywords == {"SW_Issue=", "SubBursts in burst:", "*** Burst Header ***", "RADAR TIME"}

Reg(id, val) == [t |-> "reg", id |-> id, val |-> val]
Quoted == [t |-> "quote", id |-> "", val |-> [v |-> 0]]

\* Reg01="00080000": ramp enabled, no no-dwell bit set
Reg01Base == Reg("Reg01", [v |-> 524288])
\* Reg0B: stop at 300 MHz, start at 200 MHz
Reg0BBase == Reg("Reg0B", [hi |-> 1288490189, lo |-> 858993459])
Reg0CBase == Reg("Reg0C", [hi |-> 14316, lo |-> 14316])
Reg0DBase == Reg("Reg0D", [hi |-> 12500, lo |-> 12500])

BaseToks == << Reg01Base, Reg0BBase, Reg0CBase, Reg0DBase >>

BaseHeader ==
    [kws |-> {"SW_Issue="}, toks |-> BaseToks, mode |-> << "1" >>, nadc |-> << "40000" >>]

RemoveAt(q, i) == SubSeq(q, 1, i - 1) \o SubSeq(q, i + 1, Len(q))
ReplaceAt(q, i, x) == [q EXCEPT ![i] = x]

TokVariants ==
    { BaseToks }
    \cup { RemoveAt(BaseToks, i) : i \in 1..4 }
    \cup { << Quoted >> \o BaseToks, << Reg("Reg00", [v |-> 0]) >> \o BaseToks }
    \cup { ReplaceAt(BaseToks, 1, Reg("Reg01", [v |-> x])) :
             x \in {0, 131072, 262144, 393216, 917504} }
    \cup { ReplaceAt(BaseToks, 2, Reg("Reg0B", [hi |-> 1932735283, lo |-> 858993459])) }
    \cup { ReplaceAt(BaseToks, 3, Reg("Reg0C", [hi |-> 0, lo |-> 0])) }

HeaderFiles ==
    { [BaseHeader EXCEPT !.kws = K] : K \in SUBSET Keywords }
    \cup { [BaseHeader EXCEPT !.mode = md, !.nadc = na] :
             md \in { << >>, << "0" >>, << "1" >> },
             na \in { << >>, << "20000" >>, << "20001" >>, << "40000" >> } }
    \cup { [BaseHeader EXCEPT !.toks = tk] : tk \in TokVariants }

\* Python values that the code compares across types
PyStr(x) == [ty |-> "str", v |-> x]
PyInt(x) == [ty |-> "int", v |-> x]
PyEq(a, b) == a.ty = b.ty /\ a.v = b.v

\* int(s) of the texts the headers hold; 0 - 1 when s is no integer literal
DecimalOf(s) ==
    CASE s = "0" -> 0 [] s = "1" -> 1 [] s = "20000" -> 20000
      [] s = "20001" -> 20001 [] s = "40000" -> 40000 [] OTHER -> 0 - 1

\* an element of np.empty(2).astype(str) that was never assigned: the text
\* of some float
Uninitialized == PyStr("<float>")

fsysclk == 1000000000
\* the largest tuning word w with w * fsysclk / 2^32 <= 400e6
RampDownWord == 1717986918

InitHeader ==
    /\ hfile = NoHeader
    /\ hobj = ("fsysclk" :> fsysclk) @@ ("fs" :> 40000)
    /\ hcall = [op |-> "__init__", res |-> "ok", tag |-> 0]
    /\ reads = 0
    /\ written = [version |-> 380, depth |-> <<1, 1>>, cut |-> 0, bad |-> 0,
                  chans |-> << >>, recs |-> << >>]
    /\ file = << >>
    /\ pc = "Idle"
    /\ pos = 0
    /\ nn = 0
    /\ nTrc = 0
    /\ self = EmptyObj
    /\ newdata = << >>
    /\ exc = ""
    /\ checkCalls = 0
    /\ loader = "none"
    /\ lpc = "idle"
    /\ input = << >>
    /\ model = EmptyObj

HIdle == UNCHANGED <<gvars, exc, checkCalls, lvars>>

\* read_header, lines 57-59
ReadHeader ==
    /\ reads < MaxReads
    /\ \E h \in HeaderFiles :
           /\ hfile' = h
           /\ hobj' = SetAttr(hobj, "header", h)
    /\ hcall' = [op |-> "read_header", res |-> "ok", tag |-> 0]
    /\ reads' = reads + 1
    /\ HIdle

\* a classification mutation: the oldest keyword is tested first
FormatTokenOldestFirst(kws) ==
    IF "RADAR TIME" \in kws THEN 2
    ELSE IF "*** Burst Header ***" \in kws THEN 3
    ELSE IF "SubBursts in burst:" \in kws THEN 4
    ELSE IF "SW_Issue=" \in kws THEN 5
    ELSE 0

\* lines 74-83: the tag of the branch taken, 0 in the else branch
FormatToken(kws) ==
    IF "SW_Issue=" \in kws THEN 5
    ELSE IF "SubBursts in burst:" \in kws THEN 4
    ELSE IF "*** Burst Header ***" \in kws THEN 3
    ELSE IF "RADAR TIME" \in kws THEN 2
    ELSE 0

\* file_format(), lines 74-83.  The attribute file_format of the object is
\* the method until a call stores a number under that name.
FileFormat ==
    /\ hcall.op # ""
    /\ IF Has(hobj, "file_format")
       THEN \* hdr.file_format is an int: calling it raises TypeError
            /\ hcall' = [op |-> "file_format", res |-> "TypeError", tag |-> 0]
            /\ UNCHANGED hobj
       ELSE IF ~Has(hobj, "header")
       THEN /\ hcall' = [op |-> "file_format", res |-> "AttributeError", tag |-> 0]
            /\ UNCHANGED hobj
       ELSE LET tag == FormatToken(hobj["header"].kws)
            IN  /\ hobj' = IF tag = 5 THEN SetAttr(hobj, "fileformat", 5)
                           ELSE IF tag = 0 THEN hobj
                           ELSE SetAttr(hobj, "file_format", tag)
                /\ hcall' = [op |-> "file_format", res |-> "ok", tag |-> tag]
    /\ UNCHANGED <<hfile, reads>>
    /\ HIdle

(***************************************************************************)
(* update_parameters.  A stage takes and gives [o, err]: the object so far *)
(* and the exception that ended the call ("" while it runs).               *)
(***************************************************************************)
Ok(o) == [o |-> o, err |-> ""]
Fail(st, e) == [o |-> st.o, err |-> e]

\* lines 106-107: the tokens that hold 'Reg0', the tokens that hold '="'
RECURSIVE Positions(_, _, _)
Positions(toks, kinds, i) ==
    IF i > Len(toks) THEN << >>
    ELSE (IF toks[i].t \in kinds THEN << i >> ELSE << >>)
         \o Positions(toks, kinds, i + 1)

Loc1(h) == Positions(h.toks, {"reg"}, 1)
Loc2(h) == Positions(h.toks, {"reg", "quote"}, 1)

\* line 110: header[loc1[k]:loc2[k]] is a register name only when both
\* positions are in one token
CaseOf(h, k) ==
    IF Loc1(h)[k] = Loc2(h)[k] THEN h.toks[Loc1(h)[k]].id ELSE ""

\* the payload between loc2[k] + 2 and the next quote
ValOf(h, k) == h.toks[Loc2(h)[k]].val

RECURSIVE BitLen(_)
BitLen(v) == IF v < 2 THEN 1 ELSE 1 + BitLen(v \div 2)

\* lines 122-123: character i of bin(v)[::-1], "" past its end
BinRevChar(v, i) ==
    IF i < BitLen(v) THEN (IF (v \div (2 ^ i)) % 2 = 1 THEN "1" ELSE "0")
    ELSE IF i = BitLen(v) THEN "b"
    ELSE IF i = BitLen(v) + 1 THEN "0"
    ELSE ""

\* int(val[i]) stored as attribute a, lines 124-125
StoreBit(st, a, v, i) ==
    IF st.err # "" THEN st
    ELSE IF BinRevChar(v, i) = "" THEN Fail(st, "IndexError")
    ELSE IF BinRevChar(v, i) = "b" THEN Fail(st, "ValueError")
    ELSE Ok(SetAttr(st.o, a, IF BinRevChar(v, i) = "1" THEN 1 ELSE 0))

\* lines 112-157, the branch of one register
DecodeRegister(st, case, val) ==
    IF case = "Reg01"
    THEN StoreBit(StoreBit(st, "noDwellHigh", val.v, 18), "noDwellLow", val.v, 17)
    ELSE IF case = "Reg0B"
    THEN Ok(("startFreq" :> val.lo) @@ ("stopFreq" :> val.hi) @@ st.o)
    ELSE IF case = "Reg0C"
    THEN Ok(("rampUpStep" :> val.lo) @@ ("rampDownStep" :> val.hi) @@ st.o)
    ELSE IF case = "Reg0D"
    THEN Ok(("tstepUp" :> val.lo) @@ ("tstepDown" :> val.hi) @@ st.o)
    ELSE st

\* lines 109-157
RECURSIVE RegisterLoop(_, _, _)
RegisterLoop(h, k, st) ==
    IF k > Len(Loc1(h)) \/ st.err # "" THEN st
    ELSE IF k > Len(Loc2(h)) THEN Fail(st, "IndexError")
    ELSE RegisterLoop(h, k + 1, DecodeRegister(st, CaseOf(h, k), ValOf(h, k)))

\* lines 159-165: output[i]
ScalarToken(tok) == IF tok = << >> THEN Uninitialized ELSE PyStr(tok[1])

\* lines 167-171
SamplingRate(mode) == IF PyEq(mode, PyInt(1)) THEN 80000 ELSE 40000

\* round(n / d) of Python 3 for n >= 0, d > 0: ties go to the even integer
RoundHalfEven(n, d) ==
    LET q == n \div d
        r == n % d
    IN  IF 2 * r < d THEN q
        ELSE IF 2 * r > d THEN q + 1
        ELSE IF q % 2 = 0 THEN q ELSE q + 1

Abs(x) == IF x < 0 THEN 0 - x ELSE x

\* the first attribute of names that the object lacks, "" if it has all
RECURSIVE FirstMissing(_, _)
FirstMissing(o, names) ==
    IF names = << >> THEN ""
    ELSE IF ~Has(o, Head(names)) THEN Head(names)
    ELSE FirstMissing(o, Tail(names))

\* lines 167-173
ScalarStage(h, st) ==
    IF st.err # "" THEN st
    ELSE LET o1 == SetAttr(st.o, "fs", SamplingRate(ScalarToken(h.mode)))
             n  == IF h.nadc = << >> THEN 0 - 1 ELSE DecimalOf(h.nadc[1])
         IN  IF n < 0 THEN [o |-> o1, err |-> "ValueError"]
             ELSE Ok(SetAttr(o1, "snum", n))

\* lines 175-182; chirpLength is the pair <<numerator, denominator>> in s
ChirpStage(st) ==
    IF st.err # "" THEN st
    ELSE IF FirstMissing(st.o, << "stopFreq", "startFreq", "rampUpStep" >>) # ""
    THEN Fail(st, "AttributeError")
    ELSE IF st.o["rampUpStep"] = 0 THEN Fail(st, "ZeroDivisionError")
    ELSE LET o  == st.o
             n  == RoundHalfEven(Abs(o["stopFreq"] - o["startFreq"]), o["rampUpStep"])
             o1 == SetAttr(o, "nstepsDDS", n)
         IN  IF ~Has(o, "tstepUp") THEN [o |-> o1, err |-> "AttributeError"]
             ELSE LET len == (n * o["tstepUp"]) \div (fsysclk \div 4)
                      ns  == len * o["fs"]
                      o2  == ("chirpLength" :> << len, 1 >>)
                             @@ ("nchirpSamples" :> ns) @@ o1
                  IN  Ok(IF ns > o["snum"]
                         THEN SetAttr(o2, "chirpLength", << o["snum"], o["fs"] >>)
                         ELSE o2)

(***************************************************************************)
(* Line 182 stores the binary64 quotient snum / fs.  For integers x and d, *)
(* with D the odd part of d and B its bit length, write x * 2^k = D*m + r  *)
(* where k makes m a 53-bit significand.  The quotient is rounded up when  *)
(* 2r > D; its product with d is then x * 2^k + (D - r) before rounding,   *)
(* and rounds above x when D - r is more than half a unit in the last      *)
(* place, which is 2^(B-1) when the product has 52 + B bits, i.e. when     *)
(* x / D scaled into [D, 2D) is below 2^B.                                 *)
(***************************************************************************)
RECURSIVE OddPart(_)
OddPart(n) == IF n % 2 = 0 THEN OddPart(n \div 2) ELSE n

\* the s with d * 2^s <= x < d * 2^(s+1)
RECURSIVE Log2Ratio(_, _)
Log2Ratio(x, d) ==
    IF x < d THEN Log2Ratio(2 * x, d) - 1
    ELSE IF x >= 2 * d THEN 1 + Log2Ratio(x, 2 * d)
    ELSE 0

RECURSIVE PowMod2(_, _)
PowMod2(k, d) == IF k = 0 THEN 1 % d ELSE (2 * PowMod2(k - 1, d)) % d

\* (x / d) * d > x in binary64 arithmetic, x >= 1
QuotientTimesExceeds(x, d) ==
    LET D == OddPart(d)
        B == BitLen(D)
        sh == Log2Ratio(x, D)
        r == ((x % D) * PowMod2(52 - sh, D)) % D
    IN  /\ D > 1
        /\ 2 * r > D
        /\ 4 * (D - r) > 2 ^ B
        /\ IF sh <= 0 THEN x * 2 ^ (0 - sh) < 2 ^ B ELSE x < 2 ^ (B + sh)

\* chirpLength * fs > snum as Python evaluates it on the stored values
ProductExceeds(o) ==
    IF o["chirpLength"][2] = 1
    THEN o["chirpLength"][1] * o["fs"] > o["snum"]
    ELSE QuotientTimesExceeds(o["chirpLength"][1], o["chirpLength"][2])

\* a ramp-direction mutation: one no-dwell flag is enough for 'upDown'
RampStageEitherFlag(st) ==
    IF st.err # "" THEN st
    ELSE IF st.o["tstepUp"] = 0 THEN Fail(st, "ZeroDivisionError")
    ELSE LET o  == st.o
             o1 == ("K" :> << o["rampUpStep"], o["tstepUp"] >>)
                   @@ ("rampDir" :> IF o["stopFreq"] > RampDownWord
                                    THEN "down" ELSE "up")
                   @@ o
             ud == ("rampDir" :> "upDown") @@ ("nchirpsPerPeriod" :> "nan") @@ o1
         IN  IF ~Has(o, "noDwellHigh") THEN [o |-> o1, err |-> "AttributeError"]
             ELSE IF o["noDwellHigh"] # 0 THEN Ok(ud)
             ELSE IF ~Has(o, "noDwellLow") THEN [o |-> o1, err |-> "AttributeError"]
             ELSE IF o["noDwellLow"] = 0 THEN Ok(o1)
             ELSE Ok(ud)

\* lines 184-192; K is the pair <<rampUpStep, tstepUp>> whose quotient it is
\* 2 pi times, in words per tick
RampStage(st) ==
    IF st.err # "" THEN st
    ELSE IF st.o["tstepUp"] = 0 THEN Fail(st, "ZeroDivisionError")
    ELSE LET o  == st.o
             o1 == ("K" :> << o["rampUpStep"], o["tstepUp"] >>)
                   @@ ("rampDir" :> IF o["stopFreq"] > RampDownWord
                                    THEN "down" ELSE "up")
                   @@ o
         IN  IF ~Has(o, "noDwellHigh") THEN [o |-> o1, err |-> "AttributeError"]
             ELSE IF o["noDwellHigh"] = 0 THEN Ok(o1)
             ELSE IF ~Has(o, "noDwellLow") THEN [o |-> o1, err |-> "AttributeError"]
             ELSE IF o["noDwellLow"] = 0 THEN Ok(o1)
             ELSE Ok(("rampDir" :> "upDown") @@ ("nchirpsPerPeriod" :> "nan") @@ o1)

\* update_parameters(), lines 106-192
UpdateParameters ==
    /\ hcall.op # ""
    /\ IF ~Has(hobj, "header")
       THEN /\ hcall' = [op |-> "update_parameters", res |-> "AttributeError", tag |-> 0]
            /\ UNCHANGED hobj
       ELSE LET h  == hobj["header"]
                st == RampStage(ChirpStage(ScalarStage(h,
                          RegisterLoop(h, 1, Ok(hobj)))))
            IN  /\ hobj' = st.o
                /\ hcall' = [op |-> "update_parameters",
                             res |-> IF st.err = "" THEN "ok" ELSE st.err,
                             tag |-> 0]
    /\ UNCHANGED <<hfile, reads>>
    /\ HIdle

NextHeader ==
    \/ ReadHeader
    \/ FileFormat
    \/ UpdateParameters

vars == <<gvars, exc, checkCalls, lvars, hvars>>

Init == InitGecko \/ InitLoaders
Next == NextGecko \/ NextLoaders
Spec == Init /\ [][Next]_vars

SpecHeader == InitHeader /\ [][NextHeader]_vars

(***************************************************************************)
(* Properties of the gecko decoder.                                        *)
(***************************************************************************)
NumChans == Len(written.chans)
NumRecs == Len(written.recs)
Done == pc \in {"Constructed", "Returned"}

\* the stream ends where a trace ends
EndsOnTrace ==
    NumRecs = 0
    \/ written.recs[NumRecs].type = 1
    \/ written.recs[NumRecs].chan >= NumChans

\* a file as the instrument writes it: nothing cut off, every index right
Intact == loader = "gecko" /\ written.cut = 0 /\ written.bad = 0

\* an intact file of N >= 1 channel headers and M >= 0 whole traces of data
\* records, decoded with output channel 1
RoundTripFile ==
    /\ Intact
    /\ NumChans >= 1
    /\ \A k \in 1..NumRecs : written.recs[k].type = 0
    /\ EndsOnTrace
    /\ self["chan"] = 1

\* the value injected in channel 1 of trace j, as the decoder converts it
Injected(n, j) ==
    LET k == (j - 1) * NumChans + 1
    IN  IF n = "decday" THEN Inj(n, k) + EpochOrdinal ELSE Inj(n, k)

RoundTripColumns ==
    {"trace_num", "decday", "trace_int", "trig_level", "lat", "long", "elev",
     "GPSResolution"}

\* C1: a well-formed file of N >= 1 channels and M >= 0 data traces decodes
\* with output channel 1 without error to tnum = M, data of shape (snum, M)
\* and per-trace columns equal to the values injected in channel 1.
C1_RoundTrip ==
    RoundTripFile =>
        /\ pc # "Raised"
        /\ Done =>
             LET M == NumRecs \div NumChans
             IN  /\ self["tnum"] = M
                 /\ self["data"].shape = << self["snum"], M >>
                 /\ \A n \in RoundTripColumns :
                        /\ Len(self[n]) = M
                        /\ \A j \in 1..M : self[n][j] = Injected(n, j)

\* an intact stream of data and marker records with at least one marker
MarkerFile ==
    /\ Intact
    /\ NumChans >= 1
    /\ \A k \in 1..NumRecs : written.recs[k].type \in {0, 1}
    /\ \E k \in 1..NumRecs : written.recs[k].type = 1
    /\ EndsOnTrace

DataRecordsOn(c) ==
    Cardinality({ k \in 1..NumRecs :
                    written.recs[k].type = 0 /\ written.recs[k].chan = c })

\* C2: a marker record does not abort the decode; the traces around it are
\* decoded and returned.
C2_MarkerDoesNotAbort ==
    MarkerFile =>
        /\ pc # "Raised"
        /\ Done => self["tnum"] = DataRecordsOn(self["chan"])

\* the channel index the next read of a channel loop finds, 0 - 1 if none
IndexAtCursor ==
    LET p == IF pc = "Channel" THEN pos + 1 ELSE pos
    IN  IF p < Len(file) THEN file[p + 1] ELSE 0 - 1

MismatchAtCursor ==
    /\ pc \in {"ChannelHeader", "Channel"}
    /\ IndexAtCursor >= 0
    /\ IndexAtCursor # nn + 1

\* C3: a channel index that differs from its 1-based position, in a channel
\* header or in a trace record, makes the read that finds it raise, and the
\* object with the columns accumulated so far is never returned.
C3_ChannelIndexMismatchRaises ==
    [][ /\ MismatchAtCursor =>
              (pc' = "Raised" /\ exc' = "TypeError" /\ self' = self)
        /\ (loader = "gecko" /\ written.bad > 0) => ~Done' ]_vars

\* C3 witness: a wrong index in a trace record raised after a column had
\* been accumulated
C3_Witness ==
    /\ pc = "Raised"
    /\ exc = "TypeError"
    /\ written.bad > NumChans
    /\ Has(self, "decday")
    /\ Len(self["decday"]) >= 1

AlignedColumns == {"decday", "lat", "long", "elev", "trace_num"}

\* the value channel 1 of trace j carries in field n, as the decoder
\* converts it, and sample i of channel c of trace j
FromChannel1(n, j) ==
    LET k == (j - 1) * NumChans + 1
    IN  IF n = "decday" THEN Inj(n, k) + EpochOrdinal ELSE Inj(n, k)
PayloadSample(c, j, i) == Smp((j - 1) * NumChans + c, i)

\* C19: after a successful decode, for any output channel, data has tnum
\* columns, decday, lat, long, elev and trace_num have length tnum and hold
\* the values of channel 1 of each trace, and column j of data is the
\* payload of the output channel in trace j.
C19_ColumnsAligned ==
    (loader = "gecko" /\ Done) =>
        /\ self["data"].shape = << self["snum"], self["tnum"] >>
        /\ \A n \in AlignedColumns :
               /\ Len(self[n]) = self["tnum"]
               /\ \A j \in 1..self["tnum"] : self[n][j] = FromChannel1(n, j)
        /\ \A j \in 1..self["tnum"] : \A i \in 1..self["snum"] :
               self["data"].v[i][j] = PayloadSample(self["chan"], j, i)

\* C20: every iteration of the trace loop leaves the cursor further on than
\* it found it, so that the loop test can fail after finitely many of them;
\* also when the header declares 0 channels and bytes follow the headers.
C20_IterationAdvancesCursor ==
    [][ (loader = "gecko" /\ pc \in {"TraceLoop", "Channel"} /\ pc' = "TraceLoop")
            => pos' > pos ]_vars

\* the records of type 0 on channel c, in the order of the file
DataRecordsOf(c) ==
    SelectSeq([k \in 1..NumRecs |-> k],
              LAMBDA k : written.recs[k].type = 0 /\ written.recs[k].chan = c)

\* C21: the columns of the returned data are the payloads of the records of
\* type 0 on the output channel, one column each and in their order: a
\* record of type 2 adds no column and repeats no earlier payload.
C21_OnlyDataRecordsContribute ==
    (Intact /\ Done) =>
        LET src == DataRecordsOf(self["chan"])
        IN  /\ self["data"].shape[2] = Len(src)
            /\ \A j \in 1..Len(src) : \A i \in 1..self["snum"] :
                   self["data"].v[i][j] = Smp(src[j], i)

(***************************************************************************)
(* Properties of the record model and the loaders.                         *)
(***************************************************************************)
Unset(o, a) == a \notin DOMAIN o \/ o[a] = NoneV

Incomplete(o) ==
    \/ \E a \in {"data", "decday", "dt", "lat", "long", "snum", "tnum",
                 "trace_num", "travel_time"} : Unset(o, a)
    \/ \E a \in {"x_coord", "y_coord", "elev", "fn", "file_read_code"} :
           a \notin DOMAIN o

\* C5: check_attrs fails exactly when a required attribute is absent or None
\* or an optional attribute was never declared.
C5_CheckAttrsIff ==
    (checkCalls >= 1) =>
        /\ lpc \in {"raised", "checked", "returned"}
        /\ (lpc = "raised" /\ exc = "ImpdarError") <=> Incomplete(model)

\* C5 witness: a model that lacks only dt was rejected
C5_Witness ==
    /\ loader = "check_attrs"
    /\ lpc = "raised"
    /\ exc = "ImpdarError"
    /\ Unset(model, "dt")
    /\ ~Incomplete(SetAttr(model, "dt", Scalar(0)))

HandedToCaller == pc = "Returned" \/ lpc = "returned"

\* C6: every loader that hands a model to its caller has called check_attrs
\* on it exactly once, after populating it.
C6_CheckedOnceBeforeReturn == HandedToCaller => checkCalls = 1

IsArr(o, a, sh) == Has(o, a) /\ o[a] = Arr(sh)

ShapesHold(o) ==
    /\ Has(o, "snum") /\ o["snum"].k = "scalar"
    /\ Has(o, "tnum") /\ o["tnum"].k = "scalar"
    /\ IsArr(o, "data", << o["snum"].v, o["tnum"].v >>)
    /\ \A a \in {"decday", "lat", "long", "trace_num"} :
           IsArr(o, a, << o["tnum"].v >>)
    /\ IsArr(o, "travel_time", << o["snum"].v >>)

\* C7: once check_attrs has succeeded on a model, data has shape (snum, tnum),
\* decday, lat, long and trace_num have length tnum and travel_time has
\* length snum.
C7_ShapesAfterCheck == lpc \in {"checked", "returned"} => ShapesHold(model)

(***************************************************************************)
(* Properties of the ApRES header decoder.                                 *)
(***************************************************************************)
Classified == hcall.op = "file_format" /\ hcall.res = "ok"
Kws == hobj["header"].kws

\* C8: a completed classification yields 5 for 'SW_Issue=', else 4 for
\* 'SubBursts in burst:', else 3 for '*** Burst Header ***', else 2 for
\* 'RADAR TIME'; 'SW_Issue=' together with 'RADAR TIME' gives 5.
C8_NewestFirst ==
    (Classified /\ Kws # {}) =>
        /\ "SW_Issue=" \in Kws => hcall.tag = 5
        /\ ("SW_Issue=" \notin Kws /\ "SubBursts in burst:" \in Kws) => hcall.tag = 4
        /\ (Kws \cap {"SW_Issue=", "SubBursts in burst:"} = {}
            /\ "*** Burst Header ***" \in Kws) => hcall.tag = 3
        /\ Kws = {"RADAR TIME"} => hcall.tag = 2
        /\ hcall.tag = 5 => hobj["fileformat"] = 5
        /\ hcall.tag \in {2, 3, 4} => hobj["file_format"] = hcall.tag

\* C8 witness: a header with both 'SW_Issue=' and 'RADAR TIME' was classified
C8_Witness ==
    /\ Classified
    /\ {"SW_Issue=", "RADAR TIME"} \subseteq Kws
    /\ hcall.tag = 5

\* C9: classifying a header with none of the four keywords fails: the call
\* does not complete normally.
C9_UnknownFormatFails ==
    (hcall.op = "file_format" /\ Has(hobj, "header") /\ Kws \cap Keywords = {})
        => hcall.res # "ok"

\* C10: the sampling rate is 80 kHz when the SamplingFreqMode token is 1 and
\* 40 kHz for any other mode.
C10_SamplingRateByMode ==
    (hcall.op = "update_parameters" /\ hcall.res = "ok") =>
        hobj["fs"] = IF hobj["header"].mode = << "1" >> THEN 80000 ELSE 40000

Updated == hcall.op = "update_parameters" /\ Has(hobj, "header")
Completed == Updated /\ hcall.res = "ok"
Hdr == hobj["header"]

RequiredRegisters == {"Reg01", "Reg0B", "Reg0C", "Reg0D"}
RegIds(h) == { h.toks[i].id : i \in { j \in DOMAIN h.toks : h.toks[j].t = "reg" } }

\* C11: update_parameters on a header that lacks one of Reg01, Reg0B, Reg0C,
\* Reg0D fails: it does not complete with scalars derived from other values.
C11_MissingRegisterFails ==
    (Updated /\ ~(RequiredRegisters \subseteq RegIds(Hdr))) => hcall.res # "ok"

\* C12: update_parameters on a header that lacks SamplingFreqMode= or
\* N_ADC_SAMPLES= fails instead of continuing with a default value.
C12_MissingTokenFails ==
    (Updated /\ (Hdr.mode = << >> \/ Hdr.nadc = << >>)) => hcall.res # "ok"

\* the four registers, each once and in the order of the instrument's header
FourRegister(h) ==
    /\ Len(h.toks) = 4
    /\ \A i \in 1..4 : h.toks[i].t = "reg" /\ h.toks[i].id = BaseToks[i].id

Bit(v, i) == (v \div (2 ^ i)) % 2
BothNoDwell(h) == Bit(h.toks[1].val.v, 18) = 1 /\ Bit(h.toks[1].val.v, 17) = 1

\* C13: after a completed update_parameters on a four-register header the
\* ramp direction is 'upDown' exactly when bits 18 and 17 of Reg01 are both
\* set, and then sweeps-per-period is not-a-number; otherwise it is 'down'
\* when the stop frequency exceeds 400 MHz and 'up' when it does not.
C13_RampDirection ==
    (Completed /\ FourRegister(Hdr)) =>
        /\ hobj["rampDir"] =
               IF BothNoDwell(Hdr) THEN "upDown"
               ELSE IF Hdr.toks[2].val.hi > RampDownWord THEN "down"
               ELSE "up"
        /\ BothNoDwell(Hdr) =>
               (Has(hobj, "nchirpsPerPeriod") /\ hobj["nchirpsPerPeriod"] = "nan")
        /\ hobj["noDwellHigh"] = Bit(Hdr.toks[1].val.v, 18)
        /\ hobj["noDwellLow"] = Bit(Hdr.toks[1].val.v, 17)

\* C13 witness: start 200 MHz, stop 300 MHz and both no-dwell bits set gave
\* 'upDown'
C13_Witness ==
    /\ Completed
    /\ FourRegister(Hdr)
    /\ Hdr.toks[2] = Reg0BBase
    /\ BothNoDwell(Hdr)
    /\ hobj["rampDir"] = "upDown"

\* C14: after a completed update_parameters on a four-register header with
\* both scalar tokens, chirpLength x fs does not exceed N_ADC_SAMPLES.
C14_WithinSampleBudget ==
    (Completed /\ FourRegister(Hdr) /\ Hdr.mode # << >> /\ Hdr.nadc # << >>)
        => ~ProductExceeds(hobj)

\* update_parameters on a new ApresHeader object that has read h
FreshUpdate(h) ==
    RampStage(ChirpStage(ScalarStage(h, RegisterLoop(h, 1,
        Ok(("header" :> h) @@ ("fsysclk" :> fsysclk) @@ ("fs" :> 40000))))))

\* the attributes file_format() does not set
Parameters(o) == [a \in DOMAIN o \ {"fileformat", "file_format"} |-> o[a]]

\* C15: for a valid four-register header the parameters after
\* update_parameters are those a new object gets from the same header,
\* whatever the object has decoded before.
C15_DeterministicInHeader ==
    (Updated /\ FourRegister(Hdr) /\ FreshUpdate(Hdr).err = "") =>
        /\ hcall.res = "ok"
        /\ Parameters(hobj) = Parameters(FreshUpdate(Hdr).o)

\* every Reg01 payload of the header has bit 18 or a higher bit set, so
\* that lines 124-125 find a digit
Reg01Decodable(h) ==
    \A i \in DOMAIN h.toks :
        (h.toks[i].t = "reg" /\ h.toks[i].id = "Reg01") => h.toks[i].val.v >= 2 ^ 18

\* C16: each register is read from the delimiter that follows its own
\* 'Reg0' marker: after update_parameters the limits, steps and rates are
\* the payloads of the Reg0B, Reg0C and Reg0D tokens of the header, also
\* when a delimiter precedes the first marker.
C16_PairsWithNextDelimiter ==
    (Updated /\ Reg01Decodable(Hdr)) =>
        \A i \in DOMAIN Hdr.toks :
            LET tk == Hdr.toks[i]
            IN  /\ (tk.t = "reg" /\ tk.id = "Reg0B") =>
                       /\ Has(hobj, "stopFreq") /\ hobj["stopFreq"] = tk.val.hi
                       /\ Has(hobj, "startFreq") /\ hobj["startFreq"] = tk.val.lo
                /\ (tk.t = "reg" /\ tk.id = "Reg0C") =>
                       /\ Has(hobj, "rampUpStep") /\ hobj["rampUpStep"] = tk.val.lo
                /\ (tk.t = "reg" /\ tk.id = "Reg0D") =>
                       /\ Has(hobj, "tstepUp") /\ hobj["tstepUp"] = tk.val.lo

\* C17: for every Reg01 payload, also one below 2^18, noDwellHigh is bit 18
\* and noDwellLow is bit 17 of its value.
C17_NoDwellBits ==
    (Updated /\ FourRegister(Hdr)) =>
        /\ Has(hobj, "noDwellHigh")
        /\ hobj["noDwellHigh"] = Bit(Hdr.toks[1].val.v, 18)
        /\ Has(hobj, "noDwellLow")
        /\ hobj["noDwellLow"] = Bit(Hdr.toks[1].val.v, 17)

\* C18: when the chirp is not clamped, chirpLength is the step count times
\* the up-time-step: nstepsDDS x tstepUp ticks of 4 / fsysclk seconds each.
C18_ChirpLengthIsProduct ==
    (Completed /\ hobj["nchirpSamples"] <= hobj["snum"]) =>
        hobj["chirpLength"][1] * (fsysclk \div 4)
            = hobj["nstepsDDS"] * hobj["tstepUp"] * hobj["chirpLength"][2]

\* C22: a second file_format() right after a completed one on a header of
\* format 2 to 5 completes with the same tag, and a completed call leaves
\* the tag in the attribute file_format whichever keyword matched.
C22_ClassificationIdempotent ==
    [][ /\ (Classified /\ hcall.tag \in 2..5 /\ hcall'.op = "file_format")
            => (hcall'.res = "ok" /\ hcall'.tag = hcall.tag)
        /\ (hcall'.op = "file_format" /\ hcall'.res = "ok" /\ hcall'.tag \in 2..5)
            => (Has(hobj', "file_format") /\ hobj'["file_format"] = hcall'.tag)
      ]_vars
====
